---- MODULE Spec2Model ----
(***************************************************************************)
(* Slack deploy bot: the deployBot HTTP handler (src/index.ts), its        *)
(* background deployment task, and the pure functions it is built from     *)
(* (src/slack.ts, src/config.ts, src/auth.ts, src/audit.ts,                *)
(* src/cloudbuild.ts).                                                     *)
(*                                                                         *)
(* A JavaScript string is a sequence of atoms; an atom is an indivisible   *)
(* run of characters ("backend-api", " ", "=", "7").  The empty string is  *)
(* << >>.  String equality is sequence equality, concatenation is \o.      *)
(***************************************************************************)
EXTENDS Integers, Sequences, FiniteSets, TLC

(***************************************************************************)
(* Bounds of the model.                                                    *)
(***************************************************************************)
\* longest command text, in atoms, given to parseDeployCommand on its own
MaxTextLen == 5
\* the wall clock, in seconds, at which requests are verified
NowSec == 1000

(***************************************************************************)
(* String helpers (String.prototype.trim, split, toLowerCase).             *)
(***************************************************************************)
Whitespace == {" ", "\t"}

\* the value JavaScript gives for a missing array element or property
Undefined == <<"\\undefined">>

RECURSIVE TrimStart(_)
TrimStart(s) ==
  IF s # <<>> /\ Head(s) \in Whitespace THEN TrimStart(Tail(s)) ELSE s

RECURSIVE TrimEnd(_)
TrimEnd(s) ==
  IF s # <<>> /\ s[Len(s)] \in Whitespace
    THEN TrimEnd(SubSeq(s, 1, Len(s) - 1))
    ELSE s

Trim(s) == TrimEnd(TrimStart(s))

\* index of the first atom of s that is in the set seps, 0 if there is none
RECURSIVE IndexOfAny(_, _, _)
IndexOfAny(s, seps, i) ==
  IF i > Len(s) THEN 0
  ELSE IF s[i] \in seps THEN i
  ELSE IndexOfAny(s, seps, i + 1)

\* s.split(/\s+/): a maximal run of whitespace is one separator
RECURSIVE SplitWhitespace(_)
SplitWhitespace(s) ==
  LET i == IndexOfAny(s, Whitespace, 1) IN
    IF i = 0 THEN <<s>>
    ELSE <<SubSeq(s, 1, i - 1)>> \o
         SplitWhitespace(TrimStart(SubSeq(s, i, Len(s))))

\* s.split(sep) for a one-atom separator: every occurrence separates
RECURSIVE SplitOn(_, _)
SplitOn(s, sep) ==
  LET i == IndexOfAny(s, {sep}, 1) IN
    IF i = 0 THEN <<s>>
    ELSE <<SubSeq(s, 1, i - 1)>> \o SplitOn(SubSeq(s, i + 1, Len(s)), sep)

\* arr[i] of a JavaScript array (0-based), undefined past the end
At(arr, i) == IF i + 1 <= Len(arr) THEN arr[i + 1] ELSE Undefined

LowerAtom(a) ==
  CASE a = "HELP" -> "help"
    [] a = "Help" -> "help"
    [] a = "LIST" -> "list"
    [] a = "Prod" -> "prod"
    [] a = "STAGING" -> "staging"
    [] OTHER -> a

ToLowerCase(s) == [i \in 1..Len(s) |-> LowerAtom(s[i])]

(***************************************************************************)
(* State.                                                                  *)
(***************************************************************************)
VARIABLES
  env,           \* process.env, read once when the modules are loaded
  req,           \* the inbound HTTP request in hand (NoRequest before it)
  pc,            \* position of the deployBot handler
  verification,  \* result of verifySlackRequest (index.ts:62)
  command,       \* result of parseSlackCommand (index.ts:71)
  parseResult,   \* result of parseDeployCommand (index.ts:100)
  res,           \* synchronous HTTP responses written through res
  bg,            \* position of the fire-and-forget background task
  builds,        \* calls made to triggerBuild: their arguments
  buildResult,   \* what triggerBuild resolved to
  audits,        \* events handed to logAuditEvent, with the write's fate
  posts,         \* calls made to sendDelayedResponse, with their fate
  trace,         \* the steps of the request, in the order they ran
  fn             \* a pure function applied on its own: its input and output

vars == <<env, req, pc, verification, command, parseResult, res, bg, builds,
          buildResult, audits, posts, trace, fn>>

(***************************************************************************)
(* src/config.ts                                                           *)
(***************************************************************************)
SERVICES ==
  (<<"backend-api">> :>
     [triggerId |-> <<"deploy-backend-api">>, displayName |-> <<"Backend API">>]) @@
  (<<"lexolve-client">> :>
     [triggerId |-> <<"deploy-lexolve-client">>, displayName |-> <<"Lexolve Client">>]) @@
  (<<"website">> :>
     [triggerId |-> <<"deploy-lexolve-website">>, displayName |-> <<"Lexolve Website">>]) @@
  (<<"advokatt">> :>
     [triggerId |-> <<"deploy-advokatt">>, displayName |-> <<"Advokatt">>]) @@
  (<<"langgraph-agent">> :>
     [triggerId |-> <<"deploy-langgraph-agent">>, displayName |-> <<"LangGraph Agent">>])

\* process.env[name] ?? ''
EnvOrEmpty(name) == IF env[name] = Undefined THEN <<>> ELSE env[name]

ENVIRONMENTS ==
  (<<"staging">> :>
     [projectId |-> EnvOrEmpty("STAGING_PROJECT_ID"), displayName |-> <<"Staging">>]) @@
  (<<"prod">> :>
     [projectId |-> EnvOrEmpty("PROD_PROJECT_ID"), displayName |-> <<"Production">>])

\* Names every object literal inherits from Object.prototype.  The `in`
\* operator of isValidService and isValidEnvironment walks the prototype
\* chain, so it answers true for these as well as for the object's own keys.
ObjectPrototypeKeys ==
  { <<"constructor">>, <<"toString">>, <<"toLocaleString">>, <<"valueOf">>,
    <<"hasOwnProperty">>, <<"isPrototypeOf">>, <<"propertyIsEnumerable">>,
    <<"__proto__">> }

\* key in obj
JsIn(key, obj) == key \in DOMAIN obj \/ key \in ObjectPrototypeKeys

isValidService(value) == JsIn(value, SERVICES)

isValidEnvironment(value) == JsIn(value, ENVIRONMENTS)

\* SERVICES[service]: an inherited member (a function of Object.prototype, or
\* the prototype itself) has no triggerId and no displayName
getServiceConfig(service) ==
  IF service \in DOMAIN SERVICES THEN SERVICES[service]
  ELSE [triggerId |-> Undefined, displayName |-> Undefined]

getEnvironmentConfig(environment) ==
  IF environment \in DOMAIN ENVIRONMENTS THEN ENVIRONMENTS[environment]
  ELSE [projectId |-> Undefined, displayName |-> Undefined]

\* drop the empty strings of a list of strings
RECURSIVE NonEmptyOnly(_)
NonEmptyOnly(list) ==
  IF list = <<>> THEN <<>>
  ELSE IF Head(list) = <<>> THEN NonEmptyOnly(Tail(list))
  ELSE <<Head(list)>> \o NonEmptyOnly(Tail(list))

parseAllowedUsers(envVar) ==
  IF envVar = Undefined \/ envVar = <<>> THEN <<>>
  ELSE LET ids == SplitOn(envVar, ",") IN
         NonEmptyOnly([i \in 1..Len(ids) |-> Trim(ids[i])])

ALLOWED_USERS == parseAllowedUsers(env["ALLOWED_USERS"])

SLACK_SIGNING_SECRET == EnvOrEmpty("SLACK_SIGNING_SECRET")

\* !process.env[name]
Unset(name) == env[name] = Undefined \/ env[name] = <<>>

validateConfig ==
  LET errors ==
        (IF SLACK_SIGNING_SECRET = <<>> THEN {"SLACK_SIGNING_SECRET"} ELSE {}) \cup
        (IF Len(ALLOWED_USERS) = 0 THEN {"ALLOWED_USERS"} ELSE {}) \cup
        (IF Unset("STAGING_PROJECT_ID") THEN {"STAGING_PROJECT_ID"} ELSE {}) \cup
        (IF Unset("PROD_PROJECT_ID") THEN {"PROD_PROJECT_ID"} ELSE {})
  IN [valid |-> errors = {}, errors |-> errors]

(***************************************************************************)
(* src/auth.ts                                                             *)
(***************************************************************************)
\* isUserAuthorized, were it to trim the id before looking it up
isUserAuthorized_trimmed(id) ==
  \E i \in 1..Len(ALLOWED_USERS) : ALLOWED_USERS[i] = Trim(id)


isUserAuthorized(id) ==
  \E i \in 1..Len(ALLOWED_USERS) : ALLOWED_USERS[i] = id

(***************************************************************************)
(* src/slack.ts                                                            *)
(***************************************************************************)
TIMESTAMP_MAX_AGE_SECONDS == 300

DigitValue ==
  ("0" :> 0) @@ ("1" :> 1) @@ ("2" :> 2) @@ ("3" :> 3) @@ ("4" :> 4) @@
  ("5" :> 5) @@ ("6" :> 6) @@ ("7" :> 7) @@ ("8" :> 8) @@ ("9" :> 9)

NaN == [isNaN |-> TRUE, value |-> 0]

\* the value of the longest prefix of decimal digits of s, after acc
RECURSIVE DigitsPrefix(_, _, _)
DigitsPrefix(s, acc, seen) ==
  IF s # <<>> /\ Head(s) \in DOMAIN DigitValue
    THEN DigitsPrefix(Tail(s), 10 * acc + DigitValue[Head(s)], TRUE)
    ELSE [isNaN |-> ~seen, value |-> acc]

\* parseInt(s, 10): leading whitespace and one sign are skipped, the digits
\* that follow are read, whatever comes after them is ignored
parseInt(s) ==
  LET t    == TrimStart(s)
      neg  == t # <<>> /\ Head(t) = "-"
      body == IF t # <<>> /\ Head(t) \in {"-", "+"} THEN Tail(t) ELSE t
      n    == DigitsPrefix(body, 0, FALSE)
  IN IF n.isNaN THEN NaN
     ELSE [isNaN |-> FALSE, value |-> IF neg THEN 0 - n.value ELSE n.value]

Abs(x) == IF x < 0 THEN 0 - x ELSE x

\* crypto.createHmac('sha256', key).update(msg).digest('hex'), as the term
\* it denotes: two digests are equal exactly when key and message are
HmacSha256Hex(key, msg) == [key |-> key, msg |-> msg]

\* length in characters of a hex SHA-256 digest
DigestHexLen == 64

\* A signature header is a scheme prefix followed by a digest of which the
\* last `cut` characters are missing.
ByteLength(sig) == Len(sig.scheme) + DigestHexLen - sig.cut

\* verifySlackRequest, were the age compared with >= instead of >
verifySlackRequest_strictWindow(signingSecret, signature, timestamp, rawBody, nowMs) ==
  LET requestTimestamp == parseInt(timestamp)
      currentTimestamp == nowMs \div 1000
      sigBaseString == <<"v0", ":">> \o timestamp \o <<":">> \o rawBody
      expectedSignature ==
        [scheme |-> <<"v", "0", "=">>,
         digest |-> HmacSha256Hex(signingSecret, sigBaseString),
         cut |-> 0]
  IN IF requestTimestamp.isNaN
       THEN [valid |-> FALSE, reason |-> "Invalid timestamp format"]
     ELSE IF Abs(currentTimestamp - requestTimestamp.value) >= TIMESTAMP_MAX_AGE_SECONDS
       THEN [valid |-> FALSE, reason |-> "Request timestamp too old"]
     ELSE IF ByteLength(signature) # ByteLength(expectedSignature)
       THEN [valid |-> FALSE, reason |-> "Signature length mismatch"]
     ELSE IF signature # expectedSignature
       THEN [valid |-> FALSE, reason |-> "Signature verification failed"]
     ELSE [valid |-> TRUE, reason |-> "none"]


verifySlackRequest(signingSecret, signature, timestamp, rawBody, nowMs) ==
  LET requestTimestamp == parseInt(timestamp)
      currentTimestamp == nowMs \div 1000
      sigBaseString == <<"v0", ":">> \o timestamp \o <<":">> \o rawBody
      expectedSignature ==
        [scheme |-> <<"v", "0", "=">>,
         digest |-> HmacSha256Hex(signingSecret, sigBaseString),
         cut |-> 0]
  IN IF requestTimestamp.isNaN
       THEN [valid |-> FALSE, reason |-> "Invalid timestamp format"]
     ELSE IF Abs(currentTimestamp - requestTimestamp.value) > TIMESTAMP_MAX_AGE_SECONDS
       THEN [valid |-> FALSE, reason |-> "Request timestamp too old"]
     ELSE IF ByteLength(signature) # ByteLength(expectedSignature)
       THEN [valid |-> FALSE, reason |-> "Signature length mismatch"]
     ELSE IF signature # expectedSignature
       THEN [valid |-> FALSE, reason |-> "Signature verification failed"]
     ELSE [valid |-> TRUE, reason |-> "none"]

\* application/x-www-form-urlencoded decoding of one name or value
DecodeAtom(a) == IF a \in {"+", "%20"} THEN " " ELSE a

Decode(s) == [i \in 1..Len(s) |-> DecodeAtom(s[i])]

\* the name=value pairs of a form-encoded body, decoded, in order
Pairs(body) ==
  LET fields == NonEmptyOnly(SplitOn(body, "&"))
      pair(f) == LET i == IndexOfAny(f, {"="}, 1) IN
                   IF i = 0 THEN <<Decode(f), <<>> >>
                   ELSE <<Decode(SubSeq(f, 1, i - 1)),
                          Decode(SubSeq(f, i + 1, Len(f)))>>
  IN [i \in 1..Len(fields) |-> pair(fields[i])]

\* params.get(name) ?? '': the value of the first pair with that name
RECURSIVE GetParam(_, _)
GetParam(pairs, name) ==
  IF pairs = <<>> THEN <<>>
  ELSE IF Head(pairs)[1] = <<name>> THEN Head(pairs)[2]
  ELSE GetParam(Tail(pairs), name)

parseSlackCommand(body) ==
  LET params == Pairs(body) IN
    [user_id      |-> GetParam(params, "user_id"),
     user_name    |-> GetParam(params, "user_name"),
     text         |-> GetParam(params, "text"),
     response_url |-> GetParam(params, "response_url")]

NoValue == [service |-> Undefined, environment |-> Undefined]

ok(value) == [ok |-> TRUE, value |-> value, error |-> "none"]

err(code) == [ok |-> FALSE, value |-> NoValue, error |-> code]

parseDeployCommand(text) ==
  LET parts == SplitWhitespace(Trim(text))
      service == At(parts, 0)
      environment == At(parts, 1)
  IN IF service = Undefined \/ service = <<>> THEN err("MISSING_SERVICE")
     ELSE IF environment = Undefined \/ environment = <<>> THEN err("MISSING_ENV")
     ELSE IF ~isValidService(service) THEN err("INVALID_SERVICE")
     ELSE IF ~isValidEnvironment(environment) THEN err("INVALID_ENV")
     ELSE ok([service |-> service, environment |-> environment])

(***************************************************************************)
(* src/cloudbuild.ts                                                       *)
(***************************************************************************)
\* What client.runBuildTrigger can do: resolve to an operation whose
\* metadata is of some shape, or reject with an Error or another value.
BuildApiOutcomes ==
  { [kind |-> "operation", metadata |-> "build", id |-> <<"b-42">>, message |-> <<>>],
    [kind |-> "operation", metadata |-> "build", id |-> <<>>, message |-> <<>>],
    [kind |-> "operation", metadata |-> "noBuild", id |-> <<>>, message |-> <<>>],
    [kind |-> "operation", metadata |-> "notRecord", id |-> <<>>, message |-> <<>>],
    [kind |-> "Error", metadata |-> "none", id |-> <<>>,
     message |-> <<"5 ", "NOT_FOUND", ": trigger">>],
    [kind |-> "Error", metadata |-> "none", id |-> <<>>,
     message |-> <<"7 ", "PERMISSION_DENIED", ": caller">>],
    [kind |-> "Error", metadata |-> "none", id |-> <<>>,
     message |-> <<"status ", "403">>],
    [kind |-> "operation", metadata |-> "idNotString", id |-> <<"42">>, message |-> <<>>],
    [kind |-> "Error", metadata |-> "none", id |-> <<>>,
     message |-> <<"HTTP ", "404">>],
    [kind |-> "Error", metadata |-> "none", id |-> <<>>,
     message |-> <<"deadline exceeded">>],
    [kind |-> "thrown", metadata |-> "none", id |-> <<>>,
     message |-> <<"socket hang up">>] }

\* hasValidBuildMetadata, were the length of the id not looked at
hasValidBuildMetadata_anyString(outcome) ==
  outcome.metadata = "build"

\* typeof id === 'string' && id.length > 0, under metadata.build
hasValidBuildMetadata(outcome) ==
  outcome.metadata = "build" /\ Len(outcome.id) > 0

\* message.includes(word)
Includes(message, word) == \E i \in 1..Len(message) : message[i] = word

toCloudBuildError(outcome) ==
  IF outcome.kind = "Error"
    THEN IF Includes(outcome.message, "NOT_FOUND") \/ Includes(outcome.message, "404")
           THEN [code |-> "TRIGGER_NOT_FOUND",
                 message |-> <<"Cloud Build trigger not found">>]
         ELSE IF Includes(outcome.message, "PERMISSION_DENIED")
                   \/ Includes(outcome.message, "403")
           THEN [code |-> "PERMISSION_DENIED",
                 message |-> <<"Permission denied to trigger build">>]
         ELSE [code |-> "UNKNOWN_ERROR", message |-> outcome.message]
    ELSE [code |-> "UNKNOWN_ERROR", message |-> outcome.message]

NoBuild == [buildId |-> <<>>, logUrl |-> <<>>, projectId |-> <<>>]

NoError == [code |-> "none", message |-> <<>>]

\* the Result triggerBuild resolves to when runBuildTrigger behaves as outcome
triggerBuild(projectId, triggerId, outcome) ==
  IF outcome.kind = "operation"
    THEN IF ~hasValidBuildMetadata(outcome)
           THEN [ok |-> FALSE, value |-> NoBuild,
                 error |-> [code |-> "INVALID_RESPONSE",
                            message |-> <<"Invalid operation metadata from Cloud Build API">>]]
           ELSE [ok |-> TRUE,
                 value |-> [buildId |-> outcome.id,
                            logUrl |-> <<"https://console.cloud.google.com/cloud-build/builds/">>
                                       \o outcome.id \o <<"?project=">> \o projectId,
                            projectId |-> projectId],
                 error |-> NoError]
    ELSE [ok |-> FALSE, value |-> NoBuild, error |-> toCloudBuildError(outcome)]

(***************************************************************************)
(* src/audit.ts                                                            *)
(***************************************************************************)
\* The timestamp and durationMs fields of an audit record are clock
\* readings and are left out.  A field the record does not carry is
\* Undefined.
createSuccessAuditLog(uid, userName, svc, envName, projectId, triggerId, buildId) ==
  [status |-> "SUCCESS", userId |-> uid, userName |-> userName,
   service |-> svc, environment |-> envName,
   projectId |-> projectId, triggerId |-> triggerId,
   buildId |-> buildId, reason |-> Undefined, errorMessage |-> Undefined]

createDeniedAuditLog(uid, userName, svc, envName, reason) ==
  [status |-> "DENIED", userId |-> uid, userName |-> userName,
   service |-> svc, environment |-> envName,
   projectId |-> Undefined, triggerId |-> Undefined,
   buildId |-> Undefined, reason |-> reason, errorMessage |-> Undefined]

createErrorAuditLog(uid, userName, svc, envName, errorMessage, projectId, triggerId) ==
  [status |-> "ERROR", userId |-> uid, userName |-> userName,
   service |-> svc, environment |-> envName,
   projectId |-> projectId, triggerId |-> triggerId,
   buildId |-> Undefined, reason |-> Undefined, errorMessage |-> errorMessage]

\* logAuditEvent(event) up to its await: the entry is handed to log.write.
\* Building the entry (log.entry, audit.ts:35) only allocates an object and
\* is taken not to throw.
logAuditEvent(event) == Append(audits, [event |-> event, write |-> "pending"])

\* log.write settles: it resolves, or it rejects and logAuditEvent's catch
\* prints the event to the console; either way logAuditEvent resolves
LogWriteFates == {"written", "failed"}

logWriteSettles(fate) ==
  [audits EXCEPT ![Len(audits)] = [@ EXCEPT !.write = fate]]

(***************************************************************************)
(* Inputs: the process environment and the inbound requests.               *)
(***************************************************************************)
GoodEnv ==
  [SLACK_SIGNING_SECRET |-> <<"s3cret">>,
   ALLOWED_USERS        |-> <<"U1", ",", " ", "U2", " ", ",">>,
   STAGING_PROJECT_ID   |-> <<"proj-staging">>,
   PROD_PROJECT_ID      |-> <<"proj-prod">>]

ProcessEnvs ==
  { GoodEnv,
    [GoodEnv EXCEPT !.ALLOWED_USERS = <<"U2">>],
    [GoodEnv EXCEPT !.SLACK_SIGNING_SECRET = Undefined],
    [GoodEnv EXCEPT !.ALLOWED_USERS = <<" ", ",">>],
    [GoodEnv EXCEPT !.PROD_PROJECT_ID = <<>>],
    [GoodEnv EXCEPT !.STAGING_PROJECT_ID = Undefined] }

\* the decimal digits of a natural number
RECURSIVE Digits(_)
Digits(n) ==
  LET d == CHOOSE c \in DOMAIN DigitValue : DigitValue[c] = n % 10 IN
    IF n < 10 THEN <<d>> ELSE Digits(n \div 10) \o <<d>>

\* Date.now() when the request is verified: the start and the end of the
\* second NowSec
ClockValues == {NowSec * 1000, NowSec * 1000 + 999}

\* encode one value as Slack does in a form-encoded body
Encode(s) == [i \in 1..Len(s) |-> IF s[i] \in Whitespace THEN "+" ELSE s[i]]

\* a slash-command body; a user id of Undefined leaves user_id out
Body(userId, text) ==
  (IF userId = Undefined THEN <<>> ELSE <<"user_id", "=">> \o userId \o <<"&">>)
  \o <<"user_name", "=", "ada", "&", "text", "=">> \o Encode(text)
  \o <<"&", "response_url", "=", "https://hooks.slack.com/commands/1">>

UserIds == {<<"U1">>, <<"U2">>, <<"U9">>, <<" ", "U1">>, Undefined}

HandlerTexts ==
  { <<"backend-api", " ", "staging">>,
    <<"website", " ", "prod">>,
    <<" ", "langgraph-agent", " ", " ", "prod", " ", "now">>,
    <<"backend-api">>,
    <<"nosuch", " ", "staging">>,
    <<"backend-api", " ", "Prod">>,
    <<"toString", " ", "staging">>,
    <<"website", " ", "constructor">>,
    <<"help">>, <<" ", "HELP", " ">>, <<"list">>, <<>>, <<" ">>,
    <<"help", " ", "prod">> }

Bodies == {Body(u, t) : u \in UserIds, t \in HandlerTexts}

Sign(key, timestamp, body) ==
  [scheme |-> <<"v", "0", "=">>,
   digest |-> HmacSha256Hex(key, <<"v0", ":">> \o timestamp \o <<":">> \o body),
   cut |-> 0]

Present(v) == [present |-> TRUE, value |-> v]

AbsentTimestamp == [present |-> FALSE, value |-> <<>>]

AbsentSignature == [present |-> FALSE, value |-> Sign(<<>>, <<>>, <<>>)]

HandlerTimestamps ==
  { Digits(NowSec), Digits(NowSec - TIMESTAMP_MAX_AGE_SECONDS),
    Digits(NowSec - TIMESTAMP_MAX_AGE_SECONDS - 1), <<"soon">> }

\* the signatures a sender may attach to a request with this timestamp and
\* body: the right one, one under another key, one made for another body,
\* a truncated one and one of another scheme
SignaturesFor(timestamp, body) ==
  { Sign(<<"s3cret">>, timestamp, body),
    Sign(<<"gu3ss">>, timestamp, body),
    Sign(<<"s3cret">>, timestamp, Body(<<"U1">>, <<"backend-api", " ", "prod">>)),
    [Sign(<<"s3cret">>, timestamp, body) EXCEPT !.cut = 1],
    [Sign(<<"s3cret">>, timestamp, body) EXCEPT !.scheme = <<"v", "1", "=">>] }

Requests ==
  UNION { UNION { { [method |-> m, signature |-> s, timestamp |-> t, rawBody |-> b] :
                      m \in {"POST", "GET"},
                      s \in {AbsentSignature} \cup
                            {Present(x) : x \in SignaturesFor(t.value, b)} } :
                  t \in {AbsentTimestamp} \cup {Present(x) : x \in HandlerTimestamps} } :
          b \in Bodies }

NoRequest ==
  [method |-> "none", signature |-> AbsentSignature, timestamp |-> AbsentTimestamp,
   rawBody |-> <<>>]

NotVerified == [valid |-> FALSE, reason |-> "not run"]

NoCommand ==
  [user_id |-> Undefined, user_name |-> Undefined, text |-> Undefined,
   response_url |-> Undefined]

NotParsed == err("not run")

NoResult == [ok |-> FALSE, value |-> NoBuild, error |-> [code |-> "not run", message |-> <<>>]]

NotApplied == [name |-> "none"]

Init ==
  /\ env \in ProcessEnvs
  /\ req = NoRequest
  /\ pc = "idle"
  /\ verification = NotVerified
  /\ command = NoCommand
  /\ parseResult = NotParsed
  /\ res = <<>>
  /\ bg = "none"
  /\ builds = <<>>
  /\ buildResult = NoResult
  /\ audits = <<>>
  /\ posts = <<>>
  /\ trace = <<>>
  /\ fn = NotApplied

(***************************************************************************)
(* src/index.ts: deployBot, up to its return.                              *)
(***************************************************************************)
createEphemeralResponse(text) == [response_type |-> "ephemeral", text |-> text]

createChannelResponse(text) == [response_type |-> "in_channel", text |-> text]

\* res.status(status).json(payload)
Json(status, payload) == Append(res, [status |-> status, body |-> payload])

userId == command.user_id

Receive ==
  /\ pc = "idle"
  /\ \E r \in Requests : req' = r
  /\ pc' = "method"
  /\ UNCHANGED <<env, verification, command, parseResult, res, bg, builds,
                 buildResult, audits, posts, trace, fn>>

\* CheckMethod, were the return after the 405 missing
CheckMethod_noReturn ==
  /\ pc = "method"
  /\ IF req.method # "POST"
       THEN /\ res' = Json(405, createEphemeralResponse("Method not allowed"))
            /\ trace' = Append(trace, "responder")
            /\ pc' = "config"
       ELSE /\ pc' = "config"
            /\ UNCHANGED <<res, trace>>
  /\ UNCHANGED <<env, req, verification, command, parseResult, bg, builds,
                 buildResult, audits, posts, fn>>


\* CheckMethod, were the configuration looked at before the method
CheckMethod_configFirst ==
  /\ pc = "method"
  /\ IF ~validateConfig.valid
       THEN /\ res' = Json(500, createEphemeralResponse("Bot configuration error"))
            /\ trace' = Append(trace, "responder")
            /\ pc' = "returned"
       ELSE IF req.method # "POST"
       THEN /\ res' = Json(405, createEphemeralResponse("Method not allowed"))
            /\ trace' = Append(trace, "responder")
            /\ pc' = "returned"
       ELSE /\ pc' = "config"
            /\ UNCHANGED <<res, trace>>
  /\ UNCHANGED <<env, req, verification, command, parseResult, bg, builds,
                 buildResult, audits, posts, fn>>


\* index.ts:38-41
CheckMethod ==
  /\ pc = "method"
  /\ IF req.method # "POST"
       THEN /\ res' = Json(405, createEphemeralResponse("Method not allowed"))
            /\ trace' = Append(trace, "responder")
            /\ pc' = "returned"
       ELSE /\ pc' = "config"
            /\ UNCHANGED <<res, trace>>
  /\ UNCHANGED <<env, req, verification, command, parseResult, bg, builds,
                 buildResult, audits, posts, fn>>

\* index.ts:44-49
CheckConfig ==
  /\ pc = "config"
  /\ IF ~validateConfig.valid
       THEN /\ res' = Json(500, createEphemeralResponse("Bot configuration error"))
            /\ trace' = Append(trace, "responder")
            /\ pc' = "returned"
       ELSE /\ pc' = "headers"
            /\ UNCHANGED <<res, trace>>
  /\ UNCHANGED <<env, req, verification, command, parseResult, bg, builds,
                 buildResult, audits, posts, fn>>

\* index.ts:52-60
CheckHeaders ==
  /\ pc = "headers"
  /\ IF ~req.signature.present \/ ~req.timestamp.present
       THEN /\ res' = Json(401, createEphemeralResponse("Missing security headers"))
            /\ trace' = Append(trace, "responder")
            /\ pc' = "returned"
       ELSE /\ pc' = "verify"
            /\ UNCHANGED <<res, trace>>
  /\ UNCHANGED <<env, req, verification, command, parseResult, bg, builds,
                 buildResult, audits, posts, fn>>

\* Verify, were the return after the 401 missing
Verify_noReturn ==
  /\ pc = "verify"
  /\ \E now \in ClockValues :
       verification' = verifySlackRequest(SLACK_SIGNING_SECRET, req.signature.value,
                                          req.timestamp.value, req.rawBody, now)
  /\ IF ~verification'.valid
       THEN /\ res' = Json(401, createEphemeralResponse("Request verification failed"))
            /\ trace' = trace \o <<"verifier", "responder">>
            /\ pc' = "command"
       ELSE /\ pc' = "command"
            /\ trace' = Append(trace, "verifier")
            /\ UNCHANGED res
  /\ UNCHANGED <<env, req, command, parseResult, bg, builds, buildResult,
                 audits, posts, fn>>


\* index.ts:62-68
Verify ==
  /\ pc = "verify"
  /\ \E now \in ClockValues :
       verification' = verifySlackRequest(SLACK_SIGNING_SECRET, req.signature.value,
                                          req.timestamp.value, req.rawBody, now)
  /\ IF ~verification'.valid
       THEN /\ res' = Json(401, createEphemeralResponse("Request verification failed"))
            /\ trace' = trace \o <<"verifier", "responder">>
            /\ pc' = "returned"
       ELSE /\ pc' = "command"
            /\ trace' = Append(trace, "verifier")
            /\ UNCHANGED res
  /\ UNCHANGED <<env, req, command, parseResult, bg, builds, buildResult,
                 audits, posts, fn>>

\* index.ts:71-72
ParseCommand ==
  /\ pc = "command"
  /\ command' = parseSlackCommand(req.rawBody)
  /\ pc' = "authorize"
  /\ UNCHANGED <<env, req, verification, parseResult, res, bg, builds,
                 buildResult, audits, posts, trace, fn>>

\* Authorize, were logAuditEvent not awaited before the reply
Authorize_noAwait ==
  /\ pc = "authorize"
  /\ IF ~isUserAuthorized(userId)
       THEN /\ audits' = logAuditEvent(
                           createDeniedAuditLog(userId, command.user_name, <<"unknown">>,
                                                <<"unknown">>, <<"User not authorized">>))
            /\ trace' = trace \o <<"authorizer", "logger">>
            /\ pc' = "deniedReply"
       ELSE /\ pc' = "helpCheck"
            /\ trace' = Append(trace, "authorizer")
            /\ UNCHANGED audits
  /\ UNCHANGED <<env, req, verification, command, parseResult, res, bg, builds,
                 buildResult, posts, fn>>


\* index.ts:75-86: an unauthorized user's request is audited, and the
\* handler waits for logAuditEvent
Authorize ==
  /\ pc = "authorize"
  /\ IF ~isUserAuthorized(userId)
       THEN /\ audits' = logAuditEvent(
                           createDeniedAuditLog(userId, command.user_name, <<"unknown">>,
                                                <<"unknown">>, <<"User not authorized">>))
            /\ trace' = trace \o <<"authorizer", "logger">>
            /\ pc' = "awaitDeniedAudit"
       ELSE /\ pc' = "helpCheck"
            /\ trace' = Append(trace, "authorizer")
            /\ UNCHANGED audits
  /\ UNCHANGED <<env, req, verification, command, parseResult, res, bg, builds,
                 buildResult, posts, fn>>

\* audit.ts:37-43, awaited at index.ts:77
DeniedAuditSettles ==
  /\ pc = "awaitDeniedAudit"
  /\ \E fate \in LogWriteFates : audits' = logWriteSettles(fate)
  /\ pc' = "deniedReply"
  /\ UNCHANGED <<env, req, verification, command, parseResult, res, bg, builds,
                 buildResult, posts, trace, fn>>

\* index.ts:88-89
DeniedReply ==
  /\ pc = "deniedReply"
  /\ res' = Json(200, createEphemeralResponse("You are not authorized"))
  /\ trace' = Append(trace, "responder")
  /\ pc' = "returned"
  /\ UNCHANGED <<env, req, verification, command, parseResult, bg, builds,
                 buildResult, audits, posts, fn>>

\* HelpCheck, were the text compared without lower-casing it
HelpCheck_caseSensitive ==
  /\ pc = "helpCheck"
  /\ LET commandText == Trim(command.text) IN
       IF commandText \in {<<"help">>, <<"list">>, <<>>}
         THEN /\ res' = Json(200, createEphemeralResponse("Deploy Bot Help"))
              /\ trace' = Append(trace, "responder")
              /\ pc' = "returned"
         ELSE /\ pc' = "parse"
              /\ UNCHANGED <<res, trace>>
  /\ UNCHANGED <<env, req, verification, command, parseResult, bg, builds,
                 buildResult, audits, posts, fn>>


\* index.ts:93-97
HelpCheck ==
  /\ pc = "helpCheck"
  /\ LET commandText == ToLowerCase(Trim(command.text)) IN
       IF commandText \in {<<"help">>, <<"list">>, <<>>}
         THEN /\ res' = Json(200, createEphemeralResponse("Deploy Bot Help"))
              /\ trace' = Append(trace, "responder")
              /\ pc' = "returned"
         ELSE /\ pc' = "parse"
              /\ UNCHANGED <<res, trace>>
  /\ UNCHANGED <<env, req, verification, command, parseResult, bg, builds,
                 buildResult, audits, posts, fn>>

\* index.ts:100-110
ParseDeploy ==
  /\ pc = "parse"
  /\ parseResult' = parseDeployCommand(command.text)
  /\ IF ~parseResult'.ok
       THEN /\ res' = Json(200, createEphemeralResponse(parseResult'.error))
            /\ trace' = trace \o <<"parser", "responder">>
            /\ pc' = "returned"
       ELSE /\ pc' = "ack"
            /\ trace' = Append(trace, "parser")
            /\ UNCHANGED res
  /\ UNCHANGED <<env, req, verification, command, bg, builds, buildResult,
                 audits, posts, fn>>

service == parseResult.value.service

environment == parseResult.value.environment

serviceConfig == getServiceConfig(service)

envConfig == getEnvironmentConfig(environment)

\* index.ts:112-123: the acknowledgement within Slack's three seconds
Acknowledge ==
  /\ pc = "ack"
  /\ res' = Json(200, createEphemeralResponse("Triggering deployment"))
  /\ trace' = Append(trace, "responder")
  /\ pc' = "spawn"
  /\ UNCHANGED <<env, req, verification, command, parseResult, bg, builds,
                 buildResult, audits, posts, fn>>

\* Spawn, were the background task awaited by deployBot
Spawn_awaited ==
  /\ pc = "spawn"
  /\ builds' = Append(builds, [projectId |-> envConfig.projectId,
                               triggerId |-> serviceConfig.triggerId])
  /\ trace' = Append(trace, "build client")
  /\ bg' = "awaitBuild"
  /\ pc' = "awaitTask"
  /\ UNCHANGED <<env, req, verification, command, parseResult, res,
                 buildResult, audits, posts, fn>>


\* index.ts:126-131 and 193: the async function runs up to its first await,
\* which calls triggerBuild, and deployBot returns without awaiting it
Spawn ==
  /\ pc = "spawn"
  /\ builds' = Append(builds, [projectId |-> envConfig.projectId,
                               triggerId |-> serviceConfig.triggerId])
  /\ trace' = Append(trace, "build client")
  /\ bg' = "awaitBuild"
  /\ pc' = "returned"
  /\ UNCHANGED <<env, req, verification, command, parseResult, res,
                 buildResult, audits, posts, fn>>

(***************************************************************************)
(* src/index.ts: the background task (lines 129-192).                      *)
(***************************************************************************)
\* sendDelayedResponse(responseUrl, payload) up to its await: one POST to
\* the callback URL is attempted
sendDelayedResponse(responseUrl, payload) ==
  Append(posts, [url |-> responseUrl, body |-> payload, fate |-> "pending"])

\* the POST settles: the promise resolves or rejects
PostFates == {"delivered", "threw"}

postSettles(fate) == [posts EXCEPT ![Len(posts)] = [@ EXCEPT !.fate = fate]]

responseUrl == command.response_url

\* BuildSettles, were a failed call made again
BuildSettles_retry ==
  /\ bg = "awaitBuild"
  /\ \E outcome \in BuildApiOutcomes :
       LET r == triggerBuild(builds[Len(builds)].projectId,
                             builds[Len(builds)].triggerId, outcome)
       IN IF r.ok
            THEN /\ buildResult' = r
                 /\ bg' = "built"
                 /\ UNCHANGED builds
            ELSE /\ builds' = Append(builds, builds[Len(builds)])
                 /\ UNCHANGED <<buildResult, bg>>
  /\ UNCHANGED <<env, req, pc, verification, command, parseResult, res,
                 audits, posts, trace, fn>>


\* cloudbuild.ts:78-112, awaited at index.ts:131
BuildSettles ==
  /\ bg = "awaitBuild"
  /\ \E outcome \in BuildApiOutcomes :
       buildResult' = triggerBuild(builds[Len(builds)].projectId,
                                   builds[Len(builds)].triggerId, outcome)
  /\ bg' = "built"
  /\ UNCHANGED <<env, req, pc, verification, command, parseResult, res, builds,
                 audits, posts, trace, fn>>

\* AuditOutcome, were the background task to go on to its report without
\* writing any audit record
AuditOutcome_skipped ==
  /\ bg = "built"
  /\ bg' = "report"
  /\ UNCHANGED <<env, req, pc, verification, command, parseResult, res, builds,
                 buildResult, audits, posts, trace, fn>>

\* AuditOutcome, were only the successful builds audited
AuditOutcome_errorUnlogged ==
  /\ bg = "built"
  /\ IF ~buildResult.ok
       THEN /\ bg' = "report"
            /\ UNCHANGED <<audits, trace>>
       ELSE /\ audits' = logAuditEvent(
                           createSuccessAuditLog(userId, command.user_name, service,
                                                 environment, envConfig.projectId,
                                                 serviceConfig.triggerId,
                                                 buildResult.value.buildId))
            /\ trace' = Append(trace, "logger")
            /\ bg' = "awaitAudit"
  /\ UNCHANGED <<env, req, pc, verification, command, parseResult, res, builds,
                 buildResult, posts, fn>>


\* index.ts:133-147 and 160-172
AuditOutcome ==
  /\ bg = "built"
  /\ IF ~buildResult.ok
       THEN audits' = logAuditEvent(
                        createErrorAuditLog(userId, command.user_name, service,
                                            environment, buildResult.error.message,
                                            envConfig.projectId, serviceConfig.triggerId))
       ELSE audits' = logAuditEvent(
                        createSuccessAuditLog(userId, command.user_name, service,
                                              environment, envConfig.projectId,
                                              serviceConfig.triggerId,
                                              buildResult.value.buildId))
  /\ trace' = Append(trace, "logger")
  /\ bg' = "awaitAudit"
  /\ UNCHANGED <<env, req, pc, verification, command, parseResult, res, builds,
                 buildResult, posts, fn>>

\* OutcomeAuditSettles, were a failed log write thrown on to the caller
OutcomeAuditSettles_rethrows ==
  /\ bg = "awaitAudit"
  /\ \E fate \in LogWriteFates :
       /\ audits' = logWriteSettles(fate)
       /\ bg' = IF fate = "failed" THEN "catch" ELSE "report"
  /\ UNCHANGED <<env, req, pc, verification, command, parseResult, res, builds,
                 buildResult, posts, trace, fn>>


\* audit.ts:37-43, awaited at index.ts:136 and 161
OutcomeAuditSettles ==
  /\ bg = "awaitAudit"
  /\ \E fate \in LogWriteFates : audits' = logWriteSettles(fate)
  /\ bg' = "report"
  /\ UNCHANGED <<env, req, pc, verification, command, parseResult, res, builds,
                 buildResult, posts, trace, fn>>

\* ReportOutcome, were a failed build left unreported
ReportOutcome_silentOnFailure ==
  /\ bg = "report"
  /\ IF ~buildResult.ok
       THEN /\ bg' = "done"
            /\ UNCHANGED <<posts, trace>>
       ELSE /\ posts' = sendDelayedResponse(
                          responseUrl, createChannelResponse("Deployment triggered"))
            /\ trace' = Append(trace, "responder")
            /\ bg' = "awaitReport"
  /\ UNCHANGED <<env, req, pc, verification, command, parseResult, res, builds,
                 buildResult, audits, fn>>


\* index.ts:149-157 and 174-184
ReportOutcome ==
  /\ bg = "report"
  /\ IF ~buildResult.ok
       THEN posts' = sendDelayedResponse(
                       responseUrl, createEphemeralResponse("Failed to trigger deployment"))
       ELSE posts' = sendDelayedResponse(
                       responseUrl, createChannelResponse("Deployment triggered"))
  /\ trace' = Append(trace, "responder")
  /\ bg' = "awaitReport"
  /\ UNCHANGED <<env, req, pc, verification, command, parseResult, res, builds,
                 buildResult, audits, fn>>

\* the awaited post resolves (the task ends) or rejects (the catch block
\* at index.ts:185 is entered)
ReportSettles ==
  /\ bg = "awaitReport"
  /\ \E fate \in PostFates :
       /\ posts' = postSettles(fate)
       /\ bg' = IF fate = "delivered" THEN "done" ELSE "catch"
  /\ UNCHANGED <<env, req, pc, verification, command, parseResult, res, builds,
                 buildResult, audits, trace, fn>>

\* CatchReport, were the catch block to audit the failure as well
CatchReport_alsoAudits ==
  /\ bg = "catch"
  /\ audits' = logAuditEvent(
                 createErrorAuditLog(userId, command.user_name, service, environment,
                                     <<"Unexpected error">>, Undefined, Undefined))
  /\ posts' = sendDelayedResponse(
                responseUrl, createEphemeralResponse("Unexpected error during deployment"))
  /\ trace' = Append(trace, "responder")
  /\ bg' = "awaitCatchReport"
  /\ UNCHANGED <<env, req, pc, verification, command, parseResult, res, builds,
                 buildResult, fn>>


\* index.ts:185-191
CatchReport ==
  /\ bg = "catch"
  /\ posts' = sendDelayedResponse(
                responseUrl, createEphemeralResponse("Unexpected error during deployment"))
  /\ trace' = Append(trace, "responder")
  /\ bg' = "awaitCatchReport"
  /\ UNCHANGED <<env, req, pc, verification, command, parseResult, res, builds,
                 buildResult, audits, fn>>

\* the post made inside the catch block settles; a rejection there leaves
\* the task's promise rejected with nobody to handle it
CatchReportSettles ==
  /\ bg = "awaitCatchReport"
  /\ \E fate \in PostFates :
       /\ posts' = postSettles(fate)
       /\ bg' = IF fate = "delivered" THEN "done" ELSE "rejected"
  /\ UNCHANGED <<env, req, pc, verification, command, parseResult, res, builds,
                 buildResult, audits, trace, fn>>

Next ==
  \/ Receive
  \/ CheckMethod
  \/ CheckConfig
  \/ CheckHeaders
  \/ Verify
  \/ ParseCommand
  \/ Authorize
  \/ DeniedAuditSettles
  \/ DeniedReply
  \/ HelpCheck
  \/ ParseDeploy
  \/ Acknowledge
  \/ Spawn
  \/ BuildSettles
  \/ AuditOutcome
  \/ OutcomeAuditSettles
  \/ ReportOutcome
  \/ ReportSettles
  \/ CatchReport
  \/ CatchReportSettles

Spec == Init /\ [][Next]_vars

(***************************************************************************)
(* parseDeployCommand applied on its own to every text of at most          *)
(* MaxTextLen atoms.                                                       *)
(***************************************************************************)
ParseAtoms == {" ", "backend-api", "staging", "toString", "nosuch"}

\* every string of exactly n atoms
RECURSIVE StringsOfLen(_, _)
StringsOfLen(atoms, n) ==
  IF n = 0 THEN { <<>> }
  ELSE { <<a>> \o s : a \in atoms, s \in StringsOfLen(atoms, n - 1) }

ParseTexts == UNION { StringsOfLen(ParseAtoms, n) : n \in 0..MaxTextLen }

Idle ==
  /\ env = GoodEnv
  /\ req = NoRequest
  /\ pc = "idle"
  /\ verification = NotVerified
  /\ command = NoCommand
  /\ parseResult = NotParsed
  /\ res = <<>>
  /\ bg = "none"
  /\ builds = <<>>
  /\ buildResult = NoResult
  /\ audits = <<>>
  /\ posts = <<>>
  /\ trace = <<>>

InitParse ==
  /\ Idle
  /\ \E t \in ParseTexts :
       fn = [name |-> "parseDeployCommand", text |-> t, done |-> FALSE, out |-> NotParsed]

ApplyParseDeployCommand ==
  /\ fn.name = "parseDeployCommand"
  /\ ~fn.done
  /\ fn' = [fn EXCEPT !.done = TRUE, !.out = parseDeployCommand(fn.text)]
  /\ UNCHANGED <<env, req, pc, verification, command, parseResult, res, bg,
                 builds, buildResult, audits, posts, trace>>

SpecParse == InitParse /\ [][ApplyParseDeployCommand]_vars

(***************************************************************************)
(* verifySlackRequest applied on its own.                                  *)
(***************************************************************************)
SigningKeys == {<<"s3cret">>, <<"gu3ss">>}

VerifyTimestamps ==
  { Digits(NowSec + d) :
      d \in {0 - TIMESTAMP_MAX_AGE_SECONDS - 1, 0 - TIMESTAMP_MAX_AGE_SECONDS, 0,
             TIMESTAMP_MAX_AGE_SECONDS, TIMESTAMP_MAX_AGE_SECONDS + 1} }
  \cup { Digits(NowSec) \o <<"x">>, <<" ">> \o Digits(NowSec), <<"+">> \o Digits(NowSec),
         <<"-">> \o Digits(NowSec), Digits(NowSec) \o <<":", "a">>,
         <<>>, <<"x">> \o Digits(NowSec), <<"-">> }

VerifyBodies == { <<"b">>, <<"a", ":", "b">>, <<>> }

VerifySignatures ==
  LET exact == { Sign(k, t, b) : k \in SigningKeys, t \in VerifyTimestamps, b \in VerifyBodies }
  IN exact \cup { [s EXCEPT !.cut = 1] : s \in exact }
           \cup { [s EXCEPT !.scheme = <<"v", "1", "=">>] : s \in exact }
           \cup { [s EXCEPT !.scheme = <<"v", "0">>] : s \in exact }

InitVerify ==
  /\ Idle
  /\ \E k \in SigningKeys, s \in VerifySignatures, t \in VerifyTimestamps,
        b \in VerifyBodies, now \in ClockValues :
       fn = [name |-> "verifySlackRequest", signingSecret |-> k, signature |-> s,
             timestamp |-> t, rawBody |-> b, nowMs |-> now, done |-> FALSE,
             out |-> NotVerified]

ApplyVerifySlackRequest ==
  /\ fn.name = "verifySlackRequest"
  /\ ~fn.done
  /\ fn' = [fn EXCEPT !.done = TRUE,
                      !.out = verifySlackRequest(fn.signingSecret, fn.signature,
                                                 fn.timestamp, fn.rawBody, fn.nowMs)]
  /\ UNCHANGED <<env, req, pc, verification, command, parseResult, res, bg,
                 builds, buildResult, audits, posts, trace>>

SpecVerify == InitVerify /\ [][ApplyVerifySlackRequest]_vars

(***************************************************************************)
(* triggerBuild applied on its own to every behaviour of the build API.    *)
(***************************************************************************)
BuildProjectIds == {<<"proj-staging">>, <<"proj-prod">>, Undefined}

BuildTriggerIds ==
  { SERVICES[s].triggerId : s \in DOMAIN SERVICES } \cup {Undefined}

InitBuild ==
  /\ Idle
  /\ \E p \in BuildProjectIds, t \in BuildTriggerIds, o \in BuildApiOutcomes :
       fn = [name |-> "triggerBuild", projectId |-> p, triggerId |-> t,
             outcome |-> o, done |-> FALSE, out |-> NoResult]

ApplyTriggerBuild ==
  /\ fn.name = "triggerBuild"
  /\ ~fn.done
  /\ fn' = [fn EXCEPT !.done = TRUE,
                      !.out = triggerBuild(fn.projectId, fn.triggerId, fn.outcome)]
  /\ UNCHANGED <<env, req, pc, verification, command, parseResult, res, bg,
                 builds, buildResult, audits, posts, trace>>

SpecBuild == InitBuild /\ [][ApplyTriggerBuild]_vars

(***************************************************************************)
(* The handler and its background task when, once a command has parsed,    *)
(* every step that can be taken is eventually taken: the event loop runs   *)
(* every continuation, and every external call (build trigger, log write,  *)
(* callback post) eventually returns or throws.                            *)
(***************************************************************************)
\* the steps from the acknowledgement on: index.ts:119-192
DeployNext ==
  \/ Acknowledge
  \/ Spawn
  \/ BuildSettles
  \/ AuditOutcome
  \/ OutcomeAuditSettles
  \/ ReportOutcome
  \/ ReportSettles
  \/ CatchReport
  \/ CatchReportSettles

FairSpec == Spec /\ WF_vars(DeployNext)

(***************************************************************************)
(* Properties.                                                             *)
(***************************************************************************)
\* the request's life is over: the handler has returned and the background
\* task, if one was started, has ended
Finished == pc = "returned" /\ bg \in {"none", "done", "rejected"}

ReachedAuthorization == Includes(trace, "authorizer")

AllowedSet == { ALLOWED_USERS[i] : i \in 1..Len(ALLOWED_USERS) }

\* C1 as stated: a request that reached the authorization check has, when
\* its life is over, exactly one audit record, whichever path it took.
C1_ExactlyOneAuditOnEveryPath ==
  (Finished /\ ReachedAuthorization) => Len(audits) = 1

\* C1, amended: never more than one audit record per request; when the
\* request's life is over there is exactly one if the user was refused or
\* the build trigger call was made, and none on the help/list/empty-text
\* and parse-error paths.
C1_AuditPerRequest ==
  /\ Len(audits) <= 1
  /\ (Finished /\ ReachedAuthorization) =>
       (Len(audits) = 1 <=> (command.user_id \notin AllowedSet \/ Len(builds) = 1))
  /\ ~ReachedAuthorization => audits = <<>>

C1_Witness ==
  /\ Finished
  /\ bg = "rejected"
  /\ Len(audits) = 1
  /\ audits[1].event.status = "SUCCESS"

C1_WitnessNoAudit ==
  Finished /\ ReachedAuthorization /\ audits = <<>> /\ parseResult.error = "INVALID_ENV"

\* C2: the build trigger is called only for a user whose user_id, as parsed
\* from the request body, is a member of ALLOWED_USERS.
C2_OnlyAllowedUsersDeploy ==
  (Len(builds) > 0 \/ bg # "none") => command.user_id \in AllowedSet

C2_Witness ==
  /\ Len(builds) = 1
  /\ command.user_id = <<"U2">>
  /\ buildResult.ok

\* what verifySlackRequest answers for the request in hand, at any reading
\* of the clock
VerifiesNow ==
  \E now \in ClockValues :
    verifySlackRequest(SLACK_SIGNING_SECRET, req.signature.value,
                       req.timestamp.value, req.rawBody, now).valid

NotAuthenticated ==
  /\ req # NoRequest
  /\ ~req.signature.present \/ ~req.timestamp.present \/ ~VerifiesNow

ParsesToNumber(s) ==
  \E k \in 1..Len(s) :
    /\ s[k] \in DOMAIN DigitValue
    /\ \A j \in 1..(k - 1) :
         s[j] \in Whitespace \/ (j = k - 1 /\ s[j] \in {"+", "-"})

\* C4: verifySlackRequest answers valid=true exactly when the timestamp
\* parses to a number, that number is within 300 seconds of the current
\* time (300 itself included, in the past and in the future), and the
\* signature is 'v0=' followed by the HMAC-SHA256 of 'v0:<timestamp>:<rawBody>'
\* under the signing secret.
C4_VerifyIff ==
  (fn.name = "verifySlackRequest" /\ fn.done) =>
    LET nowSec == fn.nowMs \div 1000
        ts == parseInt(fn.timestamp).value
    IN fn.out.valid <=>
         /\ ParsesToNumber(fn.timestamp)
         /\ nowSec - ts <= 300
         /\ ts - nowSec <= 300
         /\ fn.signature.scheme = <<"v", "0", "=">>
         /\ fn.signature.cut = 0
         /\ fn.signature.digest =
              HmacSha256Hex(fn.signingSecret,
                            <<"v0", ":">> \o fn.timestamp \o <<":">> \o fn.rawBody)

\* a request exactly 300 seconds old is accepted
C4_Witness ==
  /\ fn.name = "verifySlackRequest" /\ fn.done
  /\ fn.out.valid
  /\ (fn.nowMs \div 1000) - parseInt(fn.timestamp).value = 300

\* a request 301 seconds old is turned away although its signature is right
C4_WitnessStale ==
  /\ fn.name = "verifySlackRequest" /\ fn.done
  /\ ~fn.out.valid
  /\ (fn.nowMs \div 1000) - parseInt(fn.timestamp).value = 301
  /\ fn.signature = Sign(fn.signingSecret, fn.timestamp, fn.rawBody)

StepOrder ==
  <<"verifier", "authorizer", "parser", "build client", "logger", "responder">>

Rank(step) == CHOOSE r \in 1..Len(StepOrder) : StepOrder[r] = step

\* the steps that ran before position j
Before(j, step) == \E i \in 1..(j - 1) : trace[i] = step

\* C5 as stated, for a request that passed verification, authorization and
\* parsing: the steps run in the order verifier, authorizer, parser, build
\* client, logger, responder, each at most once, none before all the
\* earlier ones have run, none again after a later one.
C5_LinearPipeline ==
  parseResult.ok =>
  \A j \in 1..Len(trace) :
    /\ \A i \in 1..(j - 1) : Rank(trace[i]) < Rank(trace[j])
    /\ \A r \in 1..(Rank(trace[j]) - 1) : Before(j, StepOrder[r])

\* C5, amended: verifier, authorizer, parser, build client and logger each
\* run at most once and in that relative order; the authorizer runs only
\* after a successful verification, the parser only for an authorized user,
\* the build client only after a successful parse and right after the
\* synchronous acknowledgement; the logger runs either right after the
\* authorizer refused the user (parser and build client never run) or
\* after the build call returned; every post to the callback URL comes
\* after the audit write, and the responder runs up to three times.
C5_StepOrder ==
  /\ \A i, j \in 1..Len(trace) :
       (i < j /\ trace[i] # "responder" /\ trace[j] # "responder")
         => Rank(trace[i]) < Rank(trace[j])
  /\ \A j \in 1..Len(trace) :
       /\ trace[j] = "authorizer" => (Before(j, "verifier") /\ verification.valid)
       /\ trace[j] = "parser" =>
            (Before(j, "authorizer") /\ command.user_id \in AllowedSet)
       /\ trace[j] = "build client" =>
            (Before(j, "parser") /\ parseResult.ok /\ trace[j - 1] = "responder")
       /\ trace[j] = "logger" =>
            \/ /\ trace[j - 1] = "authorizer"
               /\ command.user_id \notin AllowedSet
               /\ ~Includes(trace, "parser") /\ ~Includes(trace, "build client")
            \/ /\ Before(j, "build client")
               /\ buildResult # NoResult
       /\ (trace[j] = "responder" /\ Before(j, "build client")) =>
            (Before(j, "logger") /\ audits[1].write # "pending")
  /\ Len(SelectSeq(trace, LAMBDA s : s = "responder")) <= 3

C5_Witness ==
  /\ Finished
  /\ trace = <<"verifier", "authorizer", "parser", "responder", "build client",
               "logger", "responder">>

\* the words of a text: its maximal runs of non-whitespace atoms
RECURSIVE Words(_)
Words(s) ==
  IF s = <<>> THEN <<>>
  ELSE IF Head(s) \in Whitespace THEN Words(Tail(s))
  ELSE LET n == IndexOfAny(s, Whitespace, 1) IN
         IF n = 0 THEN <<s>>
         ELSE <<SubSeq(s, 1, n - 1)>> \o Words(SubSeq(s, n, Len(s)))

\* C6: parseDeployCommand answers ok exactly when the first word of the
\* text is a configured service alias and the second a configured
\* environment alias; the value is then those two words, later words are
\* ignored, and nothing that is not a configured alias is accepted.
C6_OnlyConfiguredAliases ==
  (fn.name = "parseDeployCommand" /\ fn.done) =>
    LET w == Words(fn.text) IN
      /\ fn.out.ok <=>
           /\ Len(w) >= 2
           /\ w[1] \in DOMAIN SERVICES
           /\ w[2] \in DOMAIN ENVIRONMENTS
      /\ fn.out.ok => fn.out.value = [service |-> w[1], environment |-> w[2]]

\* C7: every call of triggerBuild carries the project of the environment
\* alias and the trigger of the service alias named in the command text,
\* both configured, and the audit record of the request carries the same
\* service, environment, projectId and triggerId.
C7_BuildTargetsConfigured ==
  \A i \in 1..Len(builds) :
    LET w == Words(command.text) IN
      /\ Len(w) >= 2
      /\ w[1] \in DOMAIN SERVICES
      /\ w[2] \in DOMAIN ENVIRONMENTS
      /\ builds[i].triggerId = SERVICES[w[1]].triggerId
      /\ builds[i].projectId = ENVIRONMENTS[w[2]].projectId
      /\ \A a \in 1..Len(audits) :
           /\ audits[a].event.service = w[1]
           /\ audits[a].event.environment = w[2]
           /\ audits[a].event.triggerId = builds[i].triggerId
           /\ audits[a].event.projectId = builds[i].projectId

\* C8: a request causes at most one call of the build trigger API; the call
\* is not made again whatever it returned or threw.
C8_AtMostOneBuildCall ==
  /\ Len(builds) <= 1
  /\ bg \notin {"none", "awaitBuild"} => Len(builds) = 1

\* the build call failed, the task ran to its end, and one call was made
C8_Witness ==
  /\ Finished
  /\ Len(builds) = 1
  /\ buildResult.error.code = "UNKNOWN_ERROR"

\* C9 as stated: the synchronous response is written exactly once on every
\* path, and the request produces no more than one reply in total, the
\* posts to the callback URL included.
C9_ExactlyOneReply ==
  /\ Len(res) <= 1
  /\ pc = "returned" => Len(res) = 1
  /\ Len(res) + Len(posts) <= 1

\* C9, amended: the synchronous response is written exactly once on every
\* path; on the deploy path the acknowledgement is followed by one post of
\* the outcome to the callback URL and, if that post fails, by one more
\* post reporting an unexpected error, so a request produces up to three
\* replies; on every other path it produces exactly one.
C9_RepliesPerRequest ==
  /\ Len(res) <= 1
  /\ pc = "returned" => Len(res) = 1
  /\ pc \notin {"returned", "spawn"} => res = <<>>
  /\ Len(posts) <= 2
  /\ posts # <<>> => (Len(builds) = 1 /\ Len(res) = 1)
  /\ Len(posts) = 2 => posts[1].fate = "threw"
  /\ (Finished /\ Len(builds) = 1) => Len(posts) >= 1

C9_Witness ==
  /\ Finished
  /\ Len(res) = 1
  /\ Len(posts) = 2

AuditedOutcome ==
  /\ Len(audits) = 1
  /\ audits[1].event.status = (IF buildResult.ok THEN "SUCCESS" ELSE "ERROR")

\* C10: once triggerBuild has returned, the next thing the request does is
\* the one audit write for it, SUCCESS when a build was returned and ERROR
\* when a failure was; there is never a second one, and the write has been
\* attempted and has settled before anything is posted to the callback URL.
C10_DeploymentsAreLogged ==
  /\ [](bg = "built" => audits = <<>>)
  /\ [][bg = "built" => (bg' = "awaitAudit" /\ AuditedOutcome')]_vars
  /\ [](bg \in {"awaitAudit", "report", "awaitReport", "catch",
                "awaitCatchReport", "done", "rejected"} => AuditedOutcome)
  /\ [](posts # <<>> => (AuditedOutcome /\ audits[1].write # "pending"))

\* the audit write failed and the failure was still reported
C10_Witness ==
  /\ bg = "done"
  /\ ~buildResult.ok
  /\ audits[1].event.status = "ERROR"
  /\ audits[1].write = "failed"
  /\ Len(posts) = 1


(***************************************************************************)
(* C11: the status tag of an audit record and what the record carries.     *)
(***************************************************************************)
AuditEvents == { audits[i].event : i \in 1..Len(audits) }

\* the tag of every audit record matches what happened to the request:
\* DENIED only for a user outside the allowlist, SUCCESS only when
\* triggerBuild returned a build identifier (the one recorded), ERROR only
\* when triggerBuild returned a failure
C11_StatusMatchesOutcome ==
  \A e \in AuditEvents :
    /\ e.status \in {"DENIED", "SUCCESS", "ERROR"}
    /\ e.status = "DENIED" => command.user_id \notin AllowedSet
    /\ e.status = "SUCCESS" =>
         /\ command.user_id \in AllowedSet
         /\ buildResult # NoResult /\ buildResult.ok
         /\ e.buildId = buildResult.value.buildId
         /\ e.buildId # Undefined /\ Len(e.buildId) > 0
    /\ e.status = "ERROR" =>
         /\ command.user_id \in AllowedSet
         /\ buildResult # NoResult /\ ~buildResult.ok

\* C11: the status tag of every audit record matches the outcome of the
\* request, and a SUCCESS record always carries a buildId, a projectId and
\* a triggerId
C11_AuditMatchesOutcome ==
  /\ C11_StatusMatchesOutcome
  /\ \A e \in AuditEvents :
       e.status = "SUCCESS" =>
         /\ e.buildId # Undefined
         /\ e.projectId # Undefined
         /\ e.triggerId # Undefined


\* apart from the commands that parse only through a name inherited from
\* Object.prototype (C6), every SUCCESS record carries all three
C11_HoldsForConfiguredAliases ==
  (parseResult.ok /\ service \in DOMAIN SERVICES /\ environment \in DOMAIN ENVIRONMENTS)
    => C11_AuditMatchesOutcome

\* a SUCCESS record has been written for a configured service and environment
C11_WitnessConfigured ==
  /\ \E e \in AuditEvents : e.status = "SUCCESS"
  /\ service \in DOMAIN SERVICES /\ environment \in DOMAIN ENVIRONMENTS


(***************************************************************************)
(* C12: what triggerBuild returns.                                         *)
(***************************************************************************)
CloudBuildErrorCodes ==
  {"INVALID_RESPONSE", "TRIGGER_NOT_FOUND", "PERMISSION_DENIED", "UNKNOWN_ERROR"}

\* the operation's metadata has a non-empty string build.id
CarriesBuildId(outcome) ==
  outcome.kind = "operation" /\ outcome.metadata = "build" /\ outcome.id # <<>>

C12_WitnessOk ==
  /\ fn.name = "triggerBuild" /\ fn.done
  /\ fn.out.ok /\ fn.out.value.buildId = <<"b-42">>

\* triggerBuild has turned a thrown non-Error value into an err
C12_WitnessThrown ==
  /\ fn.name = "triggerBuild" /\ fn.done
  /\ fn.outcome.kind = "thrown" /\ ~fn.out.ok


(***************************************************************************)
(* C13: the outcome is reported to response_url.                           *)
(***************************************************************************)
TaskEnded == bg \in {"done", "rejected"}

Delivered == { i \in 1..Len(posts) : posts[i].fate = "delivered" }

OutcomeMessage ==
  IF buildResult.ok THEN createChannelResponse("Deployment triggered")
  ELSE createEphemeralResponse("Failed to trigger deployment")

UnexpectedErrorMessage == createEphemeralResponse("Unexpected error during deployment")

\* C13 as stated: once an authorized request has parsed to a service and an
\* environment, the task eventually ends and exactly one message has then
\* been posted to response_url
C13_ExactlyOneOutcomePosted ==
  /\ (pc = "ack") ~> TaskEnded
  /\ [](TaskEnded => Cardinality(Delivered) = 1)

\* what the task has posted when it ends: the message of the outcome first,
\* to response_url; nothing more when that post went through; when it threw,
\* one post of the unexpected-error message after it
PostsWhenEnded ==
  /\ Len(posts) \in {1, 2}
  /\ \A i \in 1..Len(posts) : posts[i].url = command.response_url
  /\ posts[1].body = OutcomeMessage
  /\ Len(posts) = 1 => posts[1].fate = "delivered" /\ bg = "done"
  /\ Len(posts) = 2 =>
       /\ posts[1].fate = "threw"
       /\ posts[2].body = UnexpectedErrorMessage
       /\ posts[2].fate = "delivered" <=> bg = "done"

\* C13, amended: the task eventually ends, having attempted exactly one post
\* of the outcome (success or build failure) and, only when that post threw,
\* one post of the unexpected-error message; a message has got through
\* unless both posts threw
C13_OutcomeReportAttempted ==
  /\ (pc = "ack") ~> TaskEnded
  /\ [](TaskEnded => PostsWhenEnded)
  /\ [](TaskEnded => (Cardinality(Delivered) = 1 <=> bg = "done"))
  /\ [](TaskEnded => (Cardinality(Delivered) = 0 <=> bg = "rejected"))

\* the task has ended after its outcome post went through
C13_Witness ==
  /\ bg = "done" /\ Len(posts) = 1 /\ posts[1].fate = "delivered"
  /\ posts[1].body = createChannelResponse("Deployment triggered")

\* the task has ended with both of its posts thrown
C13_WitnessNothingDelivered ==
  /\ bg = "rejected" /\ Len(posts) = 2 /\ Delivered = {}


(***************************************************************************)
(* C14: the unauthorized path.                                             *)
(***************************************************************************)
\* the authorization check has been made and the user is not in the allowlist
Denied == ReachedAuthorization /\ command.user_id \notin AllowedSet

NotAuthorizedReply ==
  <<[status |-> 200, body |-> createEphemeralResponse("You are not authorized")]>>

\* C14: for a user outside the allowlist the DENIED record, with service and
\* environment 'unknown', is handed to the logger and its write has settled
\* (written, or failed and swallowed) before anything is sent; what is sent
\* is the ephemeral not-authorized message with status 200; the command
\* text is never looked at, so there is no help message, no parse, no build
\* and no callback post
C14_DeniedAuditSettlesBeforeReply ==
  Denied =>
    /\ Len(audits) = 1
    /\ audits[1].event =
         createDeniedAuditLog(command.user_id, command.user_name, <<"unknown">>,
                              <<"unknown">>, <<"User not authorized">>)
    /\ res # <<>> => (audits[1].write \in LogWriteFates /\ res = NotAuthorizedReply)
    /\ audits[1].write = "pending" => (pc = "awaitDeniedAudit" /\ res = <<>>)
    /\ pc \in {"awaitDeniedAudit", "deniedReply", "returned"}
    /\ pc = "returned" => res = NotAuthorizedReply
    /\ parseResult = NotParsed /\ ~Includes(trace, "parser")
    /\ builds = <<>> /\ posts = <<>> /\ bg = "none"

\* an unauthorized user has been answered after the audit write failed
C14_Witness ==
  /\ Denied /\ pc = "returned"
  /\ audits[1].write = "failed"
  /\ res = NotAuthorizedReply
  /\ ToLowerCase(Trim(command.text)) = <<"help">>


(***************************************************************************)
(* C15: the acknowledgement and the background task.                       *)
(***************************************************************************)
AckReply ==
  <<[status |-> 200, body |-> createEphemeralResponse("Triggering deployment")]>>

\* C15: on the deploy path the acknowledgement is written before
\* triggerBuild is called, and deployBot has returned by the time the build
\* trigger call is pending: the response is complete and never changes
\* while the build call, the audit write or the callback post are awaited
C15_AckBeforeBuild ==
  /\ [](builds # <<>> => res = AckReply)
  /\ [](bg # "none" => (pc = "returned" /\ res = AckReply))
  /\ [][builds' # builds => (res = AckReply /\ builds = <<>>)]_vars
  /\ [][bg # "none" => (res' = res /\ pc' = pc)]_vars

\* deployBot has returned its acknowledgement and the build trigger call
\* has not come back yet
C15_Witness ==
  /\ pc = "returned" /\ res = AckReply
  /\ bg = "awaitBuild" /\ Len(builds) = 1 /\ buildResult = NoResult


(***************************************************************************)
(* C16: a failing audit sink.                                              *)
(***************************************************************************)
\* C16: a failed audit write changes nothing the user is told.  Whatever
\* the fate of the write, logAuditEvent returns normally: the handler goes
\* on to the not-authorized reply, the background task goes on to its
\* report and never into its catch block because of the write; and the
\* message sent depends on the build result alone, not on the write
C16_AuditFailureIsInvisible ==
  /\ [][pc = "awaitDeniedAudit" => (pc' = "deniedReply" /\ res' = res)]_vars
  /\ [][pc = "deniedReply" => res' = NotAuthorizedReply]_vars
  /\ [][bg = "awaitAudit" => (bg' = "report" /\ posts' = posts)]_vars
  /\ [][bg = "report" =>
          posts' = <<[url |-> command.response_url, body |-> OutcomeMessage,
                      fate |-> "pending"]>>]_vars
  /\ []((Denied /\ pc = "returned") => res = NotAuthorizedReply)
  /\ [](posts # <<>> =>
          (posts[1].body = OutcomeMessage /\ audits[1].write \in LogWriteFates))
  /\ [](bg = "catch" => (posts # <<>> /\ posts[1].fate = "threw"))

\* the deployment-triggered message has been posted after the audit write
\* of the SUCCESS record failed
C16_Witness ==
  /\ Len(audits) = 1 /\ audits[1].write = "failed"
  /\ audits[1].event.status = "SUCCESS"
  /\ Len(posts) = 1 /\ posts[1].body = createChannelResponse("Deployment triggered")

\* an unauthorized user has been answered after the audit write failed
C16_WitnessDenied ==
  /\ Len(audits) = 1 /\ audits[1].write = "failed"
  /\ audits[1].event.status = "DENIED" /\ res = NotAuthorizedReply


(***************************************************************************)
(* C17: the guards ahead of the authorization check.                       *)
(***************************************************************************)
\* the configuration faults the claim lists, read off the environment
ConfigurationInvalid ==
  \/ env["SLACK_SIGNING_SECRET"] \in {Undefined, <<>>}
  \/ ALLOWED_USERS = <<>>
  \/ env["STAGING_PROJECT_ID"] \in {Undefined, <<>>}
  \/ env["PROD_PROJECT_ID"] \in {Undefined, <<>>}

HeaderMissing == ~req.signature.present \/ ~req.timestamp.present

Refusal(status, text) == <<[status |-> status, body |-> createEphemeralResponse(text)]>>

\* the handler has returned without reaching the authorization check
RefusedByGuard == pc = "returned" /\ ~ReachedAuthorization

\* C17: the guards are evaluated in the order method, configuration,
\* headers, verification, and the first one that fails decides the
\* response: 405, else 500, else 401 (missing headers), else 401 (failed
\* verification); a later guard is not evaluated once one has failed; and a
\* refused request leaves no audit record, no build call and no callback post
C17_GuardOrder ==
  /\ RefusedByGuard =>
       /\ res = (IF req.method # "POST" THEN Refusal(405, "Method not allowed")
                 ELSE IF ConfigurationInvalid THEN Refusal(500, "Bot configuration error")
                 ELSE IF HeaderMissing THEN Refusal(401, "Missing security headers")
                 ELSE Refusal(401, "Request verification failed"))
       /\ (req.method = "POST" /\ ~ConfigurationInvalid /\ ~HeaderMissing)
            => (verification # NotVerified /\ ~verification.valid)
       /\ audits = <<>> /\ builds = <<>> /\ posts = <<>> /\ bg = "none"
       /\ command = NoCommand /\ parseResult = NotParsed
  /\ verification # NotVerified =>
       (req.method = "POST" /\ ~ConfigurationInvalid /\ ~HeaderMissing)
  /\ ReachedAuthorization =>
       /\ req.method = "POST" /\ ~ConfigurationInvalid /\ ~HeaderMissing
       /\ verification.valid
  /\ (req # NoRequest /\ (req.method # "POST" \/ ConfigurationInvalid \/ HeaderMissing)) =>
       pc \in {"method", "config", "headers", "returned"}

\* a GET without headers under a faulty configuration has been answered 405
C17_Witness ==
  /\ RefusedByGuard
  /\ req.method # "POST" /\ ConfigurationInvalid /\ HeaderMissing
  /\ res = Refusal(405, "Method not allowed")

\* a POST without its signature under a faulty configuration has been
\* answered 500
C17_WitnessConfig ==
  /\ RefusedByGuard
  /\ req.method = "POST" /\ env["STAGING_PROJECT_ID"] = Undefined /\ HeaderMissing
  /\ res = Refusal(500, "Bot configuration error")

\* a POST with both headers has been refused by the verification
C17_WitnessVerify ==
  /\ RefusedByGuard /\ verification # NotVerified
  /\ res = Refusal(401, "Request verification failed")


(***************************************************************************)
(* C18: the help path and the parse-error path.                            *)
(***************************************************************************)
\* the authorization check has been made and the user is in the allowlist
Authorized == ReachedAuthorization /\ command.user_id \in AllowedSet

\* the text is help, list or empty once trimmed and lower-cased
IsHelpText == ToLowerCase(Trim(command.text)) \in {<<"help">>, <<"list">>, <<>>}

HelpReply == <<[status |-> 200, body |-> createEphemeralResponse("Deploy Bot Help")]>>

\* C18: for an authorized user a text that is help, list or empty after
\* trimming and lower-casing is answered with the help message and never
\* reaches parseDeployCommand; on that path and on the path of a text that
\* fails to parse, triggerBuild is never called and nothing is posted to
\* the callback URL
C18_HelpAndParseErrorsStopHere ==
  /\ (Authorized /\ IsHelpText) =>
       /\ pc \in {"helpCheck", "returned"}
       /\ pc = "returned" => res = HelpReply
       /\ parseResult = NotParsed /\ ~Includes(trace, "parser")
       /\ builds = <<>> /\ posts = <<>> /\ bg = "none"
  /\ (Authorized /\ ~IsHelpText /\ pc \notin {"helpCheck", "parse"}) =>
       /\ parseResult = parseDeployCommand(command.text)
       /\ ~parseResult.ok =>
            /\ pc = "returned"
            /\ res = <<[status |-> 200,
                        body |-> createEphemeralResponse(parseResult.error)]>>
            /\ builds = <<>> /\ posts = <<>> /\ bg = "none"
  /\ parseResult # NotParsed => (Authorized /\ ~IsHelpText)

\* an authorized user's ' HELP ' has been answered with the help message
C18_Witness ==
  /\ Authorized /\ pc = "returned"
  /\ command.text = <<" ", "HELP", " ">>
  /\ res = HelpReply /\ parseResult = NotParsed

\* an authorized user's text has failed to parse and has been answered
C18_WitnessParseError ==
  /\ Authorized /\ pc = "returned"
  /\ parseResult # NotParsed /\ ~parseResult.ok
  /\ builds = <<>>


(***************************************************************************)
(* C19: the precedence of parseDeployCommand's errors.                     *)
(***************************************************************************)
\* the answer the stated precedence gives for a list of words
ExpectedParse(w) ==
  IF Len(w) = 0 THEN err("MISSING_SERVICE")
  ELSE IF Len(w) = 1 THEN err("MISSING_ENV")
  ELSE IF w[1] \notin DOMAIN SERVICES THEN err("INVALID_SERVICE")
  ELSE IF w[2] \notin DOMAIN ENVIRONMENTS THEN err("INVALID_ENV")
  ELSE ok([service |-> w[1], environment |-> w[2]])

\* C19: parseDeployCommand reports exactly one error, by fixed precedence:
\* MISSING_SERVICE when there is no first word, else MISSING_ENV when there
\* is no second, else INVALID_SERVICE when the first is not a configured
\* service, else INVALID_ENV when the second is not a configured environment
C19_ErrorPrecedence ==
  (fn.name = "parseDeployCommand" /\ fn.done) =>
    fn.out = ExpectedParse(Words(fn.text))

\* the precedence holds for every text whose first two words are not names
\* inherited from Object.prototype (C6)
C19_PrecedenceApartFromInheritedNames ==
  (fn.name = "parseDeployCommand" /\ fn.done) =>
    LET w == Words(fn.text) IN
      (\A i \in 1..Len(w) : i <= 2 => w[i] \notin ObjectPrototypeKeys)
        => fn.out = ExpectedParse(w)

\* an unknown service without an environment has been answered MISSING_ENV
C19_WitnessMissingEnv ==
  /\ fn.name = "parseDeployCommand" /\ fn.done
  /\ Words(fn.text) = <<<<"nosuch">>>>
  /\ fn.out = err("MISSING_ENV")

\* an unknown service with an unknown environment has been answered
\* INVALID_SERVICE
C19_WitnessBothUnknown ==
  /\ fn.name = "parseDeployCommand" /\ fn.done
  /\ Words(fn.text) = <<<<"nosuch">>, <<"nosuch">>>>
  /\ fn.out = err("INVALID_SERVICE")


(***************************************************************************)
(* C20: how the background task ends.                                      *)
(***************************************************************************)
\* C20: the background task never ends with an uncaught exception: the
\* promise of the fire-and-forget call always resolves, whichever of
\* triggerBuild, logAuditEvent and sendDelayedResponse fail
C20_TaskNeverRejects == bg # "rejected"

\* what does hold: a failing build call or log write never reaches the catch
\* block, which is entered only when the outcome post threw, and the only
\* exception that leaves the task is a second throw, by the post made inside
\* the catch block
C20_OnlyTheCatchPostEscapes ==
  /\ bg \in {"catch", "awaitCatchReport"} =>
       (Len(posts) >= 1 /\ posts[1].fate = "threw" /\ audits[1].write \in LogWriteFates)
  /\ bg = "rejected" =>
       /\ Len(posts) = 2
       /\ posts[1].fate = "threw" /\ posts[2].fate = "threw"
       /\ posts[2].body = UnexpectedErrorMessage
  /\ (bg = "done" /\ Len(posts) = 2) => posts[2].fate = "delivered"

\* the task has ended normally although the build call failed, the log
\* write failed and the outcome post threw
C20_WitnessHandled ==
  /\ bg = "done" /\ ~buildResult.ok /\ audits[1].write = "failed"
  /\ Len(posts) = 2 /\ posts[1].fate = "threw"

====
